---------------------------- MODULE Spec2Model ----------------------------
(***************************************************************************)
(* Model of the invocation bridge of oasis-jsbridge-android:               *)
(*   - JavaMethod        (HostMethodInvoker,   JavaMethod.cpp)              *)
(*   - JavaScriptMethod  (ScriptMethodInvoker, JavaScriptMethod.cpp)        *)
(*   - JavaScriptObject  (ProxyObject,         JavaScriptObject.cpp)        *)
(*   - Parameter         (TypeDescriptor,      Parameter.kt)                *)
(* for the two build flavours DUKTAPE (stack-based) and QUICKJS            *)
(* (handle-based).  Every bridge entry point is synchronous and runs on    *)
(* the single interpreter thread, so each one is one atomic action.        *)
(***************************************************************************)
EXTENDS Integers, Sequences, FiniteSets, TLC

VARIABLES
  backend,     \* build flavour: "DUKTAPE" or "QUICKJS"
  stack,       \* DUKTAPE: the engine value stack of the current activation
  component,   \* the invoker / proxy object that is currently registered
  last         \* observation of the last bridge operation

vars == <<backend, stack, component, last>>

(***************************************************************************)
(* Bounds of the model                                                     *)
(***************************************************************************)
MaxParams  == 2   \* declared parameters of a reflected method
MaxArgs    == 3   \* script arguments given to a host method
MaxVarArgs == 2   \* elements of the trailing host array of a variadic call
MaxMethods == 2   \* length of the method list of a proxy object
MaxStack   == 3   \* cap of the engine value stack (only a leak reaches it)

(***************************************************************************)
(* Values                                                                  *)
(***************************************************************************)
\* Script values a caller can pass; Unconvertible is rejected by the codec.
Unconvertible == "NaV"
ScriptValues  == {"a", "b", Unconvertible}

\* Host values a caller can pass; HostUnconvertible is rejected by the codec.
HostUnconvertible == "JNaV"
HostValues        == {"x", "y", HostUnconvertible}

\* Host values as the bridge sees them (JValue): null, a converted value, an array.
JValue(tag, of, elements) == [tag |-> tag, of |-> of, elements |-> elements]

\* A default-constructed JValue (JavaMethod.cpp: "JValue value;").
JNull == JValue("null", "", <<>>)

MethodNames == {"compute", "join"}
ScriptMessages == {"bad", "oops"}

RECURSIVE SeqsUpTo(_, _)
SeqsUpTo(S, n) ==
  IF n = 0 THEN { <<>> }
  ELSE LET shorter == SeqsUpTo(S, n - 1)
       IN  shorter \cup { Append(s, x) : s \in { t \in shorter : Len(t) = n - 1 }, x \in S }

SeqsOfLen(S, n) == { s \in SeqsUpTo(S, n) : Len(s) = n }

Max(a, b) == IF a >= b THEN a ELSE b

\* std::to_string
to_string(n) == IF n \in 0..9 THEN <<"0", "1", "2", "3", "4", "5", "6", "7", "8", "9">>[n + 1] ELSE "N"

\* "needle occurs in the concatenated message"
Contains(message, needle) == \E i \in 1..Len(message) : message[i] = needle

(***************************************************************************)
(* Parameter.kt: reflected parameters                                      *)
(***************************************************************************)
\* Parameter(javaClass) / Parameter(kotlinType): type names the javaClass,
\* kotlinType tells whether a KType is held, arguments are the KType's
\* type arguments
Parameter(type, hasKotlinType, arguments) ==
  [type |-> type, kotlinType |-> hasKotlinType, arguments |-> arguments]

\* javaClass?.componentType: the raw component class of an array class
NoClass == "<null>"
javaComponentType(type) ==
  IF type = "String[]" THEN "String"
  ELSE IF type = "int[]" THEN "int"
  ELSE NoClass

NoParameter == [type |-> "<null>", kotlinType |-> FALSE, arguments |-> <<>>]

\* fun getGenericParameter(): Parameter?
getGenericParameter(p) ==
  IF ~p.kotlinType
    THEN Parameter("Any", FALSE, <<>>)
    ELSE IF p.arguments = <<>>
           THEN NoParameter
           ELSE Parameter(p.arguments[1], TRUE, <<>>)

\* javaComponentType?.isPrimitive
isPrimitive(type) == type = "int"

\* fun getComponentType(): Parameter?
getComponentType(p) ==
  LET componentClass == javaComponentType(p.type)
  IN  IF componentClass # NoClass /\ isPrimitive(componentClass)
        THEN Parameter(componentClass, FALSE, <<>>)
      ELSE IF ~p.kotlinType
        THEN IF componentClass = NoClass
               THEN Parameter("Any", FALSE, <<>>)
               ELSE Parameter(componentClass, FALSE, <<>>)
      ELSE IF p.arguments = <<>>
        THEN NoParameter
        ELSE Parameter(p.arguments[1], TRUE, <<>>)

\* the parameters the accessors are asked about: Deferred<String>, a raw
\* Deferred, Array<String>, IntArray, String[] and int[] through Java
\* reflection, and String
SampleParameters ==
  { Parameter("Deferred", TRUE, <<"String">>), Parameter("Deferred", FALSE, <<>>),
    Parameter("String[]", TRUE, <<"String">>), Parameter("int[]", TRUE, <<>>),
    Parameter("String[]", FALSE, <<>>), Parameter("int[]", FALSE, <<>>),
    Parameter("String", TRUE, <<>>), Parameter("String", FALSE, <<>>) }

\* What reflection tells about the class of a parameter: whether a KType is
\* held, what kotlinClass?.memberFunctions does ("throws": kotlin-reflect
\* crashes; "no class": the classifier is no KClass, and then findJavaClass
\* yields no javaClass; "none": no member function is named invoke; "found"),
\* and whether javaClass?.methods holds a method named invoke.
MemberFunctionLookups == {"throws", "no class", "none", "found"}
ReflectedClasses ==
  { c \in [kotlinType : BOOLEAN, memberFunctions : MemberFunctionLookups,
            javaInvoke : BOOLEAN] :
      (c.kotlinType /\ c.memberFunctions = "no class") => ~c.javaInvoke }

\* val invokeMethod: Method? by lazy { .. }
invokeMethod(c) ==
  IF c.kotlinType /\ c.memberFunctions # "throws"
    \* "return@lazy kotlinFunction?.let { Method(it, true) }"
    THEN IF c.memberFunctions = "found" THEN "Method(kotlinFunction, true)" ELSE "null"
  \* "catch (t: Throwable) {}" or no kotlinType: scan javaClass?.methods
  ELSE IF ~c.javaInvoke THEN "null"
  ELSE IF ~c.kotlinType THEN "Method(javaMethod)"
  ELSE "Method(javaMethod, kotlinType.arguments, true)"

(***************************************************************************)
(* Reflected methods (MethodInterface).  The reflected-method handle       *)
(* (jmethodID) of a method is its signature, i.e. the descriptor itself.   *)
(***************************************************************************)
\* the sample interface: compute(..) returns a String, join(..) a Deferred
ReturnTypeOf(name) == IF name = "join" THEN "Deferred" ELSE "String"

\* how the parameters of a method are reflected: with Kotlin type
\* information (vararg String is Array<out String>), with Kotlin type
\* information of a primitive array (vararg Int is IntArray, which has no
\* type argument), or through Java reflection only (String[])
Reflections == {"kotlin", "kotlin-primitive", "java"}

MethodDescriptors ==
  { [name |-> nm, numParameters |-> n, isVarArgs |-> v, returnType |-> ReturnTypeOf(nm),
     reflection |-> k] :
      nm \in MethodNames, n \in 0..MaxParams, v \in BOOLEAN, k \in Reflections }

\* a variadic method declares at least the collector parameter; the sample
\* methods without a collector are reflected with Kotlin type information
Methods ==
  { m \in MethodDescriptors :
      /\ m.isVarArgs => m.numParameters >= 1
      /\ ~m.isVarArgs => m.reflection = "kotlin" }

\* the reflected final parameter of a variadic method
VarArgParameter(reflection) ==
  IF reflection = "kotlin" THEN Parameter("String[]", TRUE, <<"String">>)
  ELSE IF reflection = "kotlin-primitive" THEN Parameter("int[]", TRUE, <<>>)
  ELSE Parameter("String[]", FALSE, <<>>)

\* MethodInterface::getParameters
getParameters(m) ==
  [i \in 1..m.numParameters |->
     IF m.isVarArgs /\ i = m.numParameters
       THEN VarArgParameter(m.reflection)
       ELSE Parameter("String", m.reflection # "java", <<>>)]

\* MethodInterface::getReturnParameter
getReturnParameter(m) ==
  IF m.returnType = "Deferred"
    THEN Parameter("Deferred", TRUE, <<"String">>)
    ELSE Parameter(m.returnType, TRUE, <<>>)

NoMethod ==
  [name |-> "<none>", numParameters |-> 0, isVarArgs |-> FALSE, returnType |-> "Void",
   reflection |-> "kotlin"]

\* JniContext::fromReflectedMethod: the jmethodID of the Java method behind
\* a reflected method.  join(vararg String) reflected with Kotlin type
\* information and join(String[]) reflected through Java only are the same
\* Java method; join(vararg Int) is another one.
fromReflectedMethod(m) ==
  [m EXCEPT !.reflection = IF @ = "java" THEN "kotlin" ELSE @]

(***************************************************************************)
(* JavaTypeProvider / JavaType: the marshallers                            *)
(***************************************************************************)
\* JavaTypeProvider::makeUniqueType(parameter, boxed)
makeUniqueType(parameter, boxed) ==
  [parameter |-> parameter, boxed |-> boxed, codec |-> "declared"]

\* JavaTypeProvider::getDeferredType(parameter)
getDeferredType(parameter) ==
  [parameter |-> Parameter("Deferred", TRUE, <<parameter.type>>),
   boxed |-> TRUE, codec |-> "deferred"]

\* JavaType::isDeferred
isDeferred(javaType) == javaType.parameter.type = "Deferred"

\* read: script value -> host value (JavaType::pop / JavaType::toJava)
CanRead(v) == v # Unconvertible
ToJava(v)  == JValue("java", v, <<>>)

\* write: host value -> script value (JavaType::push / JavaType::fromJava)
CanWrite(h) == h # HostUnconvertible
FromJava(h) == <<"js", h>>

\* JavaTypeProvider::makeUniqueType of a null parameter: no marshaller can be
\* built, the invoker's constructor throws
Unbuildable(invoker) ==
  \E i \in 1..Len(invoker.m_argumentTypes) :
    invoker.m_argumentTypes[i].parameter = NoParameter

\* the exception a failing marshaller construction throws: a
\* std::invalid_argument or another std::exception (a JNI exception)
BuildErrors == {"invalid_argument", "exception"}
BuildError(kind) == [type |-> kind, what |-> <<"Cannot build marshaller">>]

\* a host array holding the given host elements
JArray(elements) == JValue("array", "", elements)

(***************************************************************************)
(* The result of an operation: one record shape for all operations         *)
(***************************************************************************)
NoError == [type |-> "none", what |-> <<>>]

\* What a script callable does when it is invoked: it returns a value
\* (an object or not, exposing a "then" property or not, readable by the
\* return marshaller or not) or it throws an error with a message.
\* isRuntimeError: whether the translated JsException is a std::runtime_error,
\* which is decided outside the modelled files.
Behaviour(kind, isObject, hasThen, readable, message, isRuntimeError) ==
  [kind |-> kind, isObject |-> isObject, hasThen |-> hasThen,
   readable |-> readable, message |-> message, isRuntimeError |-> isRuntimeError]

\* A script value given to a registration: an object or not, and what each
\* property of interest holds: "absent", "value" (the number 7, not callable)
\* or "function".
PropertyStates == {"absent", "value", "function"}
NoObject == [isObject |-> FALSE, props |-> [n \in MethodNames |-> "absent"]]
ScriptObjects ==
  {NoObject} \cup { [isObject |-> TRUE, props |-> p] : p \in [MethodNames -> PropertyStates] }

NoBehaviour == Behaviour("none", FALSE, FALSE, FALSE, "", FALSE)

Behaviours ==
  { Behaviour("return", o, t, r, "", FALSE) : o \in BOOLEAN, t \in BOOLEAN, r \in BOOLEAN }
    \cup { Behaviour("throw", FALSE, FALSE, FALSE, msg, re) :
              msg \in ScriptMessages, re \in BOOLEAN }

NoResult ==
  [op           |-> "none",
   outcome      |-> "none",     \* "returned" or "thrown"
   error        |-> NoError,
   method       |-> NoMethod,
   argc         |-> 0,          \* number of arguments the caller passed
   input        |-> <<>>,       \* the arguments the caller passed
   marshalled   |-> 0,          \* marshaller operations run
   called       |-> FALSE,      \* the foreign / script callable was invoked
   callArgs     |-> <<>>,       \* the argument vector handed to the call
   varArgCount  |-> [wrapped |-> FALSE, low |-> 0],
   acquired     |-> 0,          \* handles acquired by the operation
   released     |-> <<>>,       \* release count of each acquired handle
   entryTop     |-> 0,          \* DUKTAPE: stack depth on entry
   exitTop      |-> 0,          \* DUKTAPE: stack depth on exit
   await        |-> FALSE,      \* awaitJsPromise
   callee       |-> "none",     \* what the target of the script call held
   behaviour    |-> NoBehaviour,\* what the script callable did when invoked
   check        |-> FALSE,      \* registration: the check flag
   jsObject     |-> NoObject,   \* registration: the script object given
   returnCodec  |-> "none",     \* marshaller that handled the return value
   requested    |-> 0,          \* marshallers requested from the provider by the call
   resolved     |-> "none",     \* Parameter.invokeMethod: the entry point found
   parameter    |-> NoParameter,\* the Parameter? an accessor of Parameter returned
   value        |-> JNull,      \* host value returned to a host caller
   jsValue      |-> <<"undefined">>, \* script value returned to a script caller
   outOfBounds  |-> FALSE,      \* an array was read outside its bounds
   table        |-> {}]         \* identities held by the method table

(***************************************************************************)
(* JavaMethod (HostMethodInvoker)                                          *)
(***************************************************************************)
\* the loop without its variadic branch: the last marshaller is built from
\* the array parameter itself
JavaMethodArgumentTypes_NoVarArgBranch(i, parameters, isVarArgs, isLambda) ==
  [k \in 1..Len(parameters) |-> makeUniqueType(parameters[k], isLambda)]

RECURSIVE JavaMethodArgumentTypes(_, _, _, _)
\* JavaMethod::JavaMethod, the loop "Create JavaType instances"
JavaMethodArgumentTypes(i, parameters, isVarArgs, isLambda) ==
  LET numParameters == Len(parameters) IN
  IF i > numParameters THEN <<>>
  ELSE IF isVarArgs /\ i = numParameters
    THEN << makeUniqueType(getGenericParameter(parameters[i]), isLambda) >>
    ELSE << makeUniqueType(parameters[i], isLambda) >>
           \o JavaMethodArgumentTypes(i + 1, parameters, isVarArgs, isLambda)

\* JavaMethod::JavaMethod
JavaMethod(method, isLambda) ==
  [kind            |-> "JavaMethod",
   m_methodName    |-> method.name,
   m_isLambda      |-> isLambda,
   m_isVarArgs     |-> method.isVarArgs,
   m_argumentTypes |-> JavaMethodArgumentTypes(1, getParameters(method), method.isVarArgs, isLambda),
   m_returnValueType |-> makeUniqueType(getReturnParameter(method), isLambda)]

\* minArgs = m_isVarArgs ? m_argumentTypes.size() - 1 : m_argumentTypes.size()
MinArgs(jm) ==
  IF jm.m_isVarArgs THEN Len(jm.m_argumentTypes) - 1 ELSE Len(jm.m_argumentTypes)

\* a - b in size_t arithmetic: a value 2^64 - low when a < b ("wrapped")
SizeSub(a, b) ==
  IF a >= b THEN [wrapped |-> FALSE, low |-> a - b]
            ELSE [wrapped |-> TRUE,  low |-> b - a]

\* a - b in int arithmetic
IntSub(a, b) == [wrapped |-> FALSE, low |-> a - b]

\* "if (!m_isVarArgs && argCount > minArgs)" with a slip: one extra accepted
TooManyArgs_OffByOne(jm, argCount) ==
  ~jm.m_isVarArgs /\ argCount > MinArgs(jm) + 1

\* "if (!m_isVarArgs && argCount > minArgs)"
TooManyArgs(jm, argCount) ==
  ~jm.m_isVarArgs /\ argCount > MinArgs(jm)

TooManyParameters(jm, argCount) ==
  [type |-> "invalid_argument",
   what |-> <<"Too many parameters when calling Java method ", jm.m_methodName,
              " (expected: ", to_string(MinArgs(jm)), ", received: ", to_string(argCount), ")">>]

MarshalError(v) ==
  [type |-> "invalid_argument", what |-> <<"Cannot convert ", v>>]

\* m_methodBody: the foreign call and the marshalling of its result
MethodBody(jm, args, hostReturn) ==
  IF hostReturn = "throw"
    THEN [outcome |-> "thrown", value |-> <<"undefined">>,
          error |-> [type |-> "JniException", what |-> <<"boom">>]]
    ELSE [outcome |-> "returned", value |-> FromJava(hostReturn), error |-> NoError]

HostReturns == {"x", "throw"}

\* the result of JavaMethod::invoke once the argument vector is complete
JavaMethodCall(r, jm, args, hostReturn) ==
  LET body == MethodBody(jm, args, hostReturn)
  IN  [r EXCEPT !.called = TRUE, !.callArgs = args,
                !.outcome = body.outcome, !.jsValue = body.value, !.error = body.error,
                !.returnCodec = IF body.outcome = "returned"
                                  THEN jm.m_returnValueType.codec ELSE "none"]

\* the result of JavaMethod::invoke when it throws before the foreign call
JavaMethodThrow(r, error) ==
  [r EXCEPT !.outcome = "thrown", !.error = error]

(***************************************************************************)
(* JavaMethod::invoke, DUKTAPE                                             *)
(***************************************************************************)
\* JavaType::popArray(count, true): read the count topmost values into one
\* host array, bottom-most first
popArray(stk, count) ==
  IF count.wrapped \/ count.low > Len(stk)
    THEN [ok |-> FALSE, stack |-> stk, value |-> JNull,
          error |-> [type |-> "invalid_argument", what |-> <<"Cannot read array">>]]
    ELSE LET n     == count.low
             rest  == SubSeq(stk, 1, Len(stk) - n)
             elems == SubSeq(stk, Len(stk) - n + 1, Len(stk))
         IN  IF \E i \in 1..n : ~CanRead(elems[i])
               THEN [ok |-> FALSE, stack |-> rest, value |-> JNull,
                     error |-> MarshalError(Unconvertible)]
               ELSE [ok |-> TRUE, stack |-> rest,
                     value |-> JArray([i \in 1..n |-> ToJava(elems[i])]),
                     error |-> NoError]

RECURSIVE DukLoadArguments(_, _, _, _, _)
\* "for (ssize_t i = minArgs - 1; i >= 0; --i)": i is the 0-based index
DukLoadArguments(i, argCount, stk, args, marshalled) ==
  IF i < 0
    THEN [ok |-> TRUE, args |-> args, stack |-> stk, marshalled |-> marshalled, error |-> NoError]
  ELSE IF i >= argCount
    THEN DukLoadArguments(i - 1, argCount, stk, [args EXCEPT ![i + 1] = JNull], marshalled)
  ELSE IF stk = <<>> \/ ~CanRead(stk[Len(stk)])
    THEN [ok |-> FALSE, args |-> args, stack |-> stk, marshalled |-> marshalled + 1,
          error |-> MarshalError(Unconvertible)]
  ELSE DukLoadArguments(i - 1, argCount, SubSeq(stk, 1, Len(stk) - 1),
                        [args EXCEPT ![i + 1] = ToJava(stk[Len(stk)])], marshalled + 1)

\* duk_ret_t JavaMethod::invoke(jsBridgeContext, javaThis): frame holds the
\* script arguments, the last one on top
JavaMethodInvokeDuktape(jm, frame, hostReturn) ==
  LET argCount == Len(frame)
      minArgs  == MinArgs(jm)
      size     == Len(jm.m_argumentTypes)
      r0       == [NoResult EXCEPT !.op = "JavaMethod::invoke", !.argc = argCount,
                                   !.input = frame]
  IN  IF TooManyArgs(jm, argCount)
        THEN JavaMethodThrow(r0, TooManyParameters(jm, argCount))
        ELSE
          LET args0 == [k \in 1..size |-> JNull]
              count == SizeSub(argCount, minArgs)
              arr   == IF jm.m_isVarArgs
                         THEN popArray(frame, count)
                         ELSE [ok |-> TRUE, stack |-> frame, value |-> JNull, error |-> NoError]
              r1    == IF jm.m_isVarArgs
                         THEN [r0 EXCEPT !.varArgCount = count, !.marshalled = 1]
                         ELSE r0
          IN  IF ~arr.ok
                THEN JavaMethodThrow(r1, arr.error)
                ELSE
                  LET args1 == IF jm.m_isVarArgs
                                 THEN [args0 EXCEPT ![size] = arr.value] ELSE args0
                      ld    == DukLoadArguments(minArgs - 1, argCount, arr.stack,
                                                args1, r1.marshalled)
                      r2    == [r1 EXCEPT !.marshalled = ld.marshalled]
                  IN  IF ~ld.ok
                        THEN JavaMethodThrow(r2, ld.error)
                        ELSE JavaMethodCall(r2, jm, ld.args, hostReturn)

(***************************************************************************)
(* JavaMethod::invoke, QUICKJS                                             *)
(***************************************************************************)
\* JavaType::toJavaArray: read a script array into one host array
toJavaArray(jsArray) ==
  IF \E i \in 1..Len(jsArray) : ~CanRead(jsArray[i])
    THEN [ok |-> FALSE, value |-> JNull, error |-> MarshalError(Unconvertible)]
    ELSE [ok |-> TRUE, value |-> JArray([i \in 1..Len(jsArray) |-> ToJava(jsArray[i])]),
          error |-> NoError]

RECURSIVE QjsLoadArguments(_, _, _, _, _)
\* "for (int i = 0; i < minArgs; ++i)": i is the 0-based index
QjsLoadArguments(i, minArgs, argv, args, marshalled) ==
  IF i >= minArgs
    THEN [ok |-> TRUE, args |-> args, marshalled |-> marshalled, error |-> NoError]
  ELSE IF i >= Len(argv)
    THEN QjsLoadArguments(i + 1, minArgs, argv, [args EXCEPT ![i + 1] = JNull], marshalled)
  ELSE IF ~CanRead(argv[i + 1])
    THEN [ok |-> FALSE, args |-> args, marshalled |-> marshalled + 1,
          error |-> MarshalError(Unconvertible)]
  ELSE QjsLoadArguments(i + 1, minArgs, argv,
                        [args EXCEPT ![i + 1] = ToJava(argv[i + 1])], marshalled + 1)

\* the variadic loop reading argv[i] instead of argv[minArgs + i]
VarArgArray_FromStart(argv, minArgs, varArgCount) ==
  [i \in 1..Max(0, varArgCount) |-> argv[i]]

\* "for (i < varArgCount) JS_SetPropertyUint32(ctx, varArgArray, i, argv[minArgs + i])"
VarArgArray(argv, minArgs, varArgCount) ==
  [i \in 1..Max(0, varArgCount) |-> argv[minArgs + i]]

\* JSValue JavaMethod::invoke(jsBridgeContext, javaThis, argc, argv)
JavaMethodInvokeQuickJs(jm, argv, hostReturn) ==
  LET argc    == Len(argv)
      minArgs == MinArgs(jm)
      size    == Len(jm.m_argumentTypes)
      r0      == [NoResult EXCEPT !.op = "JavaMethod::invoke", !.argc = argc,
                                  !.input = argv]
  IN  IF TooManyArgs(jm, argc)
        THEN JavaMethodThrow(r0, TooManyParameters(jm, argc))
        ELSE
          LET ld == QjsLoadArguments(0, minArgs, argv, [k \in 1..size |-> JNull], 0)
              r1 == [r0 EXCEPT !.marshalled = ld.marshalled]
          IN  IF ~ld.ok
                THEN JavaMethodThrow(r1, ld.error)
              ELSE IF ~jm.m_isVarArgs
                THEN JavaMethodCall(r1, jm, ld.args, hostReturn)
              ELSE
                \* JS_NewArray, then one JS_SetPropertyUint32 per variadic argument
                LET varArgCount == IntSub(argc, minArgs)
                    varArgArray == VarArgArray(argv, minArgs, varArgCount.low)
                    conv        == toJavaArray(varArgArray)
                    r2          == [r1 EXCEPT !.varArgCount = varArgCount,
                                              !.marshalled = @ + 1,
                                              !.acquired = 1]
                IN  IF ~conv.ok
                      \* toJavaArray throws: JS_FreeValue(ctx, varArgArray) is skipped
                      THEN JavaMethodThrow([r2 EXCEPT !.released = <<0>>], conv.error)
                      ELSE JavaMethodCall([r2 EXCEPT !.released = <<1>>], jm,
                                          [ld.args EXCEPT ![size] = conv.value], hostReturn)

(***************************************************************************)
(* JavaScriptMethod (ScriptMethodInvoker)                                  *)
(***************************************************************************)
RECURSIVE JavaScriptMethodArgumentTypes(_, _, _)
\* JavaScriptMethod::JavaScriptMethod, the loop "Create JavaType instances"
JavaScriptMethodArgumentTypes(i, parameters, isVarArgs) ==
  LET numParameters == Len(parameters) IN
  IF i > numParameters THEN <<>>
  ELSE IF isVarArgs /\ i = numParameters
    THEN << makeUniqueType(getGenericParameter(parameters[i]), FALSE) >>
    ELSE << makeUniqueType(parameters[i], TRUE) >>
           \o JavaScriptMethodArgumentTypes(i + 1, parameters, isVarArgs)

\* JavaScriptMethod::JavaScriptMethod
JavaScriptMethod(method, isLambda) ==
  [kind                   |-> "JavaScriptMethod",
   m_methodName           |-> method.name,
   m_isLambda             |-> isLambda,
   m_isVarArgs            |-> method.isVarArgs,
   m_returnValueType      |-> makeUniqueType(getReturnParameter(method), TRUE),
   m_returnValueParameter |-> getReturnParameter(method),
   m_argumentTypes        |-> JavaScriptMethodArgumentTypes(1, getParameters(method), method.isVarArgs)]

\* ExceptionHandler::getCurrentJsException: the host exception made of the
\* pending script error.  Whether JsException is a std::runtime_error is
\* decided outside the modelled files, so both are possible.
getCurrentJsException(message, isRuntimeError) ==
  [type |-> IF isRuntimeError THEN "runtime_error" ELSE "JsException",
   what |-> <<message>>]

\* "bool isDeferred = awaitJsPromise && is_object(ret) && has_prop(ret, "then")"
\* without the test of awaitJsPromise
IsDeferredReturn_IgnoresAwait(awaitJsPromise, ret) ==
  ret.isObject /\ ret.hasThen

\* "bool isDeferred = awaitJsPromise && is_object(ret) && has_prop(ret, "then")"
IsDeferredReturn(awaitJsPromise, ret) ==
  awaitJsPromise /\ ret.isObject /\ ret.hasThen

\* the marshaller that reads the return value
ReturnType(jsm, awaitJsPromise, ret) ==
  IF IsDeferredReturn(awaitJsPromise, ret) /\ ~isDeferred(jsm.m_returnValueType)
    THEN getDeferredType(jsm.m_returnValueParameter)
    ELSE jsm.m_returnValueType

\* the host value a return marshaller produces
ReturnValue(javaType) == JValue(javaType.codec, javaType.parameter.type, <<>>)

\* the calls of JavaTypeProvider made by invoke to read the return value:
\* "jsBridgeContext->getJavaTypeProvider().getDeferredType(m_returnValueParameter)"
ProviderRequests(jsm, awaitJsPromise, ret) ==
  IF IsDeferredReturn(awaitJsPromise, ret) /\ ~isDeferred(jsm.m_returnValueType)
    THEN 1 ELSE 0

\* the end of JavaScriptMethod::invoke after a successful script call
ScriptReturn(r, jsm, awaitJsPromise, ret) ==
  LET javaType == ReturnType(jsm, awaitJsPromise, ret)
      r1       == [r EXCEPT !.returnCodec = javaType.codec,
                            !.requested = ProviderRequests(jsm, awaitJsPromise, ret)]
  IN  IF ret.readable
        THEN [r1 EXCEPT !.outcome = "returned", !.value = ReturnValue(javaType)]
        ELSE [r1 EXCEPT !.outcome = "thrown", !.error = MarshalError("return value")]

\* the script error is translated without its message
ScriptThrow_DropsMessage(r, message, isRuntimeError) ==
  [r EXCEPT !.outcome = "thrown",
            !.error = getCurrentJsException("script error", isRuntimeError)]

\* "throw jsBridgeContext->getExceptionHandler()->getCurrentJsException()"
ScriptThrow(r, message, isRuntimeError) ==
  [r EXCEPT !.outcome = "thrown",
            !.error = getCurrentJsException(message, isRuntimeError)]

(***************************************************************************)
(* JavaScriptMethod::invoke, DUKTAPE                                       *)
(***************************************************************************)
\* duk_pop_n
duk_pop_n(stk, n) == SubSeq(stk, 1, Max(0, Len(stk) - n))

\* JavaType::pushArray(values, true): write the elements of one host array
\* as that many script values; nothing stays pushed when an element fails
pushArray(stk, jarray) ==
  IF \E j \in 1..Len(jarray.elements) : ~CanWrite(jarray.elements[j])
    THEN [ok |-> FALSE, stack |-> stk, count |-> 0]
    ELSE [ok |-> TRUE, count |-> Len(jarray.elements),
          stack |-> stk \o [j \in 1..Len(jarray.elements) |-> FromJava(jarray.elements[j])]]

\* the catch block pops the pushed arguments but not the call target
PushFailureCleanup_ArgsOnly(jsm, i) == i

\* "duk_pop_n(ctx, (m_isLambda ? 1 : 2) + i)"
PushFailureCleanup(jsm, i) == (IF jsm.m_isLambda THEN 1 ELSE 2) + i

\* the expanded array counts as one argument
ExpandedArguments_AsOne(i, pushed) == i + 1

\* "numArguments = i + argumentType->pushArray(.., true /*expand*/)"
ExpandedArguments(i, pushed) == i + pushed

RECURSIVE DukPushArguments(_, _, _, _, _)
\* "for (jsize i = 0; i < numArguments; ++i)": i is the 0-based index
DukPushArguments(i, numArguments, jsm, args, stk) ==
  IF i >= numArguments
    THEN [ok |-> TRUE, oob |-> FALSE, stack |-> stk, numArguments |-> numArguments]
  ELSE IF i >= Len(jsm.m_argumentTypes)
    \* m_argumentTypes[i] is read past the end of the vector
    THEN [ok |-> FALSE, oob |-> TRUE, numArguments |-> numArguments, stack |-> stk]
  ELSE IF jsm.m_isVarArgs /\ i = numArguments - 1
    THEN LET pa == pushArray(stk, args[i + 1])
         IN  IF pa.ok
               THEN [ok |-> TRUE, oob |-> FALSE, stack |-> pa.stack,
                     numArguments |-> ExpandedArguments(i, pa.count)]
               ELSE [ok |-> FALSE, oob |-> FALSE, numArguments |-> numArguments,
                     stack |-> duk_pop_n(pa.stack, PushFailureCleanup(jsm, i))]
  ELSE IF ~CanWrite(args[i + 1].of)
    THEN [ok |-> FALSE, oob |-> FALSE, numArguments |-> numArguments,
          stack |-> duk_pop_n(stk, PushFailureCleanup(jsm, i))]
  ELSE DukPushArguments(i + 1, numArguments, jsm, args, Append(stk, FromJava(args[i + 1].of)))

\* the script error duk_pcall_prop leaves when the property named by the key
\* is not callable: the engine's TypeError, raised before any script code runs
DukNotCallable(jsm, callee) ==
  Behaviour("throw", FALSE, FALSE, FALSE,
            (IF callee = "absent" THEN "undefined" ELSE "7")
              \o " not callable (property '" \o jsm.m_methodName \o "' of [object Object])",
            FALSE)

\* duk_pcall / duk_pcall_prop followed by duk_remove of the object:
\* [... target (key) arg1 ... argN] -> [... retval-or-error]
DukCall(jsm, stk, numArguments, behaviour) ==
  Append(duk_pop_n(stk, (IF jsm.m_isLambda THEN 1 ELSE 2) + numArguments),
         IF behaviour.kind = "throw" THEN <<"error", behaviour.message>> ELSE <<"retval">>)

\* JValue JavaScriptMethod::invoke(jsBridgeContext, jsHeapPtr, args, awaitJsPromise)
\* yields the observation and the value stack it leaves behind.
\* callee: what the call target holds ("function" for a callable), behaviour:
\* what the script callable does when it runs
JavaScriptMethodInvokeDuktape(jsm, stk, args, awaitJsPromise, callee, behaviour) ==
  LET r0     == [NoResult EXCEPT !.op = "JavaScriptMethod::invoke", !.argc = Len(args),
                                 !.input = args, !.await = awaitJsPromise,
                                 !.entryTop = Len(stk)]
      target == IF jsm.m_isLambda
                  THEN Append(stk, <<"function">>)
                  ELSE stk \o << <<"object">>, <<"key", jsm.m_methodName>> >>
      pushed == DukPushArguments(0, Len(args), jsm, args, target)
  IN  IF ~pushed.ok
        THEN [result |-> [r0 EXCEPT !.outcome = IF pushed.oob THEN "undefined" ELSE "thrown",
                                    !.outOfBounds = pushed.oob,
                                    !.error = MarshalError("argument"),
                                    !.exitTop = Len(pushed.stack)],
              stack  |-> pushed.stack]
        ELSE
          LET n        == pushed.numArguments
              callArgs == SubSeq(pushed.stack, Len(pushed.stack) - n + 1, Len(pushed.stack))
              callable == callee = "function"
              done     == IF callable THEN behaviour ELSE DukNotCallable(jsm, callee)
              after    == DukCall(jsm, pushed.stack, n, done)
              \* JavaType::pop and getCurrentJsException take the value off the stack
              final    == duk_pop_n(after, 1)
              r1       == [r0 EXCEPT !.called = callable, !.callArgs = callArgs,
                                     !.callee = callee,
                                     !.behaviour = IF callable THEN behaviour ELSE NoBehaviour,
                                     !.exitTop = Len(final)]
          IN  [result |-> IF done.kind = "throw"
                            THEN ScriptThrow(r1, done.message, behaviour.isRuntimeError)
                            ELSE ScriptReturn(r1, jsm, awaitJsPromise, done),
               stack  |-> final]

(***************************************************************************)
(* JavaScriptMethod::invoke, QUICKJS                                       *)
(***************************************************************************)
\* JS_FreeValue on jsArgs[0 .. n-1]: one more release of each
FreeValues(released, n) ==
  [k \in 1..Len(released) |-> IF k <= n THEN released[k] + 1 ELSE released[k]]

\* the catch block frees nothing
FreeOnFailure_Nothing(released, i) == released

\* "for (int j = 0; j < i; ++j) JS_FreeValue(ctx, jsArgs[j])"
FreeOnFailure(released, i) == FreeValues(released, i)

\* the arguments are also freed by the callee
FreeAfterCall_Twice(released, numJsArguments) ==
  FreeValues(FreeValues(released, numJsArguments), numJsArguments)

\* "for (jsize i = 0; i < numJsArguments; ++i) JS_FreeValue(ctx, jsArgs[i])"
FreeAfterCall(released, numJsArguments) == FreeValues(released, numJsArguments)

\* JavaType::fromJavaArray followed by JS_GetPropertyUint32 of each element
fromJavaArray(jarray) ==
  IF \E j \in 1..Len(jarray.elements) : ~CanWrite(jarray.elements[j])
    THEN [ok |-> FALSE, values |-> <<>>]
    ELSE [ok |-> TRUE,
          values |-> [j \in 1..Len(jarray.elements) |-> FromJava(jarray.elements[j])]]

RECURSIVE QjsMarshalArguments(_, _, _, _, _, _)
\* "for (jsize i = 0; i < numJsArguments; ++i)": i is the 0-based index
QjsMarshalArguments(i, numJsArguments, numJavaArguments, jsm, javaArgs, jsArgs) ==
  IF i >= numJsArguments
    THEN [ok |-> TRUE, oob |-> FALSE, jsArgs |-> jsArgs, i |-> i]
  ELSE IF i >= Len(jsm.m_argumentTypes) \/ i >= numJavaArguments
    \* m_argumentTypes[i] or javaArgs.getElement(i) is read past the end
    THEN [ok |-> FALSE, oob |-> TRUE, jsArgs |-> jsArgs, i |-> i]
  ELSE IF jsm.m_isVarArgs /\ i >= numJavaArguments - 1
    THEN LET arr == fromJavaArray(javaArgs[numJavaArguments])
         IN  IF arr.ok
               THEN [ok |-> TRUE, oob |-> FALSE, jsArgs |-> jsArgs \o arr.values,
                     i |-> i + Len(arr.values)]
               ELSE [ok |-> FALSE, oob |-> FALSE, jsArgs |-> jsArgs, i |-> i]
  ELSE IF ~CanWrite(javaArgs[i + 1].of)
    THEN [ok |-> FALSE, oob |-> FALSE, jsArgs |-> jsArgs, i |-> i]
  ELSE QjsMarshalArguments(i + 1, numJsArguments, numJavaArguments, jsm, javaArgs,
                           Append(jsArgs, FromJava(javaArgs[i + 1].of)))

\* the exception JS_Call leaves when jsMethod is not a function: the engine's
\* TypeError, raised before any script code runs
QjsNotCallable ==
  Behaviour("throw", FALSE, FALSE, FALSE, "not a function", FALSE)

\* JValue JavaScriptMethod::invoke(jsBridgeContext, jsMethod, jsThis, javaArgs, awaitJsPromise)
\* callee: what jsMethod holds ("function" for a callable), behaviour: what
\* the script callable does when it runs
JavaScriptMethodInvokeQuickJs(jsm, javaArgs, awaitJsPromise, callee, behaviour) ==
  LET numJavaArguments == Len(javaArgs)
      \* javaArgs.getElement(numJavaArguments - 1) of an empty array
      noVarArgArray    == jsm.m_isVarArgs /\ numJavaArguments = 0
      varArgCount      == IF jsm.m_isVarArgs /\ ~noVarArgArray
                            THEN Len(javaArgs[numJavaArguments].elements) ELSE 0
      numJsArguments   == IF jsm.m_isVarArgs
                            THEN numJavaArguments + varArgCount - 1
                            ELSE numJavaArguments
      r0  == [NoResult EXCEPT !.op = "JavaScriptMethod::invoke", !.argc = numJavaArguments,
                              !.input = javaArgs, !.await = awaitJsPromise]
      m   == QjsMarshalArguments(0, numJsArguments, numJavaArguments, jsm, javaArgs, <<>>)
      new == [k \in 1..Len(m.jsArgs) |-> 0]
  IN  IF noVarArgArray
        THEN [r0 EXCEPT !.outcome = "undefined", !.outOfBounds = TRUE]
      ELSE IF ~m.ok
        THEN [r0 EXCEPT !.outcome = IF m.oob THEN "undefined" ELSE "thrown",
                        !.outOfBounds = m.oob,
                        !.error = MarshalError("argument"),
                        !.acquired = Len(m.jsArgs),
                        !.released = FreeOnFailure(new, m.i)]
        ELSE
          LET callable == callee = "function"
              done     == IF callable THEN behaviour ELSE QjsNotCallable
              r1 == [r0 EXCEPT !.called = callable, !.callArgs = m.jsArgs,
                               !.callee = callee,
                               !.behaviour = IF callable THEN behaviour ELSE NoBehaviour,
                               !.acquired = Len(m.jsArgs),
                               !.released = FreeAfterCall(new, numJsArguments)]
          IN  IF done.kind = "throw"
                THEN ScriptThrow(r1, done.message, behaviour.isRuntimeError)
                ELSE ScriptReturn(r1, jsm, awaitJsPromise, done)

(***************************************************************************)
(* JavaScriptObject (ProxyObject)                                          *)
(***************************************************************************)
ObjectName == "jsObj"

\* the entry of an identity the table holds already is replaced
emplace_Overwrite(m_methods, methodId, jsMethod) ==
  [id \in DOMAIN m_methods \cup {methodId} |->
     IF id = methodId THEN jsMethod ELSE m_methods[id]]

\* m_methods.emplace(methodId, jsMethod): an existing entry is kept
emplace(m_methods, methodId, jsMethod) ==
  IF methodId \in DOMAIN m_methods
    THEN m_methods
    ELSE [id \in DOMAIN m_methods \cup {methodId} |->
            IF id = methodId THEN jsMethod ELSE m_methods[id]]

EmptyTable == [id \in {} |-> NoMethod]

HasNoMethod(strMethodName) ==
  [type |-> "invalid_argument",
   what |-> <<"JS global ", ObjectName, " has no method called ", strMethodName>>]

\* DUKTAPE
NotCallable(strMethodName) ==
  [type |-> "invalid_argument",
   what |-> <<"JS property ", ObjectName, ".", strMethodName, " not callable">>]

\* QUICKJS
NotFunction(strMethodName) ==
  [type |-> "invalid_argument",
   what |-> <<"JS property ", ObjectName, ".", strMethodName, " is not function">>]

CannotBeAccessed ==
  [type |-> "invalid_argument",
   what |-> <<"JavaScript object ", ObjectName, " cannot be accessed">>]

\* the sanity check accepts any property that is present
MethodCheck_PresenceOnly(jsObject, strMethodName) ==
  IF jsObject.props[strMethodName] = "absent" THEN HasNoMethod(strMethodName) ELSE NoError

\* DUKTAPE, "if (check) { ... has no method called ... / ... not callable }"
MethodCheck(jsObject, strMethodName) ==
  IF jsObject.props[strMethodName] = "absent" THEN HasNoMethod(strMethodName)
  ELSE IF jsObject.props[strMethodName] # "function" THEN NotCallable(strMethodName)
  ELSE NoError

\* QUICKJS, "if (check) { ... has no method called ... / ... is not function }"
MethodCheckQuickJs(jsObject, strMethodName) ==
  IF jsObject.props[strMethodName] = "absent" THEN HasNoMethod(strMethodName)
  ELSE IF jsObject.props[strMethodName] # "function" THEN NotFunction(strMethodName)
  ELSE NoError

\* std::invalid_argument("In proxied method \"" + m_name + "." + strMethodName + "\": " + e.what())
InProxiedMethod(strMethodName, e) ==
  [type |-> "invalid_argument",
   what |-> <<"In proxied method \"", ObjectName, ".", strMethodName, "\": ">> \o e.what]

\* DUKTAPE, "catch (const std::invalid_argument &e) { duk_pop(ctx); throw .. }":
\* the constructor of the invoker threw e; stk holds the script object on top
DukBuildFailure(strMethodName, e, m_methods, stk) ==
  IF e.type = "invalid_argument"
    THEN [error |-> InProxiedMethod(strMethodName, e), m_methods |-> m_methods,
          stack |-> duk_pop_n(stk, 1)]
    \* any other exception passes the handler: nothing is popped
    ELSE [error |-> e, m_methods |-> m_methods, stack |-> stk]

RECURSIVE DukAddMethods(_, _, _, _, _, _, _)
\* DUKTAPE, "for (jsize i = 0; i < numMethods; ++i)": i is the 1-based index;
\* stk holds the script object on top
DukAddMethods(i, methods, jsObject, check, buildError, m_methods, stk) ==
  IF i > Len(methods)
    THEN [error |-> NoError, m_methods |-> m_methods, stack |-> duk_pop_n(stk, 1)]
    ELSE
      LET method        == methods[i]
          strMethodName == method.name
          checked       == IF check THEN MethodCheck(jsObject, strMethodName) ELSE NoError
          jsMethod      == JavaScriptMethod(method, FALSE)
      IN  IF checked # NoError
            \* duk_get_prop_string pushed the property: duk_pop_2
            THEN [error |-> checked, m_methods |-> m_methods,
                  stack |-> duk_pop_n(Append(stk, <<"property">>), 2)]
          ELSE IF Unbuildable(jsMethod)
            THEN DukBuildFailure(strMethodName, BuildError(buildError), m_methods, stk)
            ELSE DukAddMethods(i + 1, methods, jsObject, check, buildError,
                               emplace(m_methods, fromReflectedMethod(method), jsMethod),
                               stk)

RECURSIVE QjsAddMethods(_, _, _, _, _, _)
\* QUICKJS, "for (jsize i = 0; i < numMethods; ++i)": i is the 1-based index
QjsAddMethods(i, methods, jsObject, check, buildError, m_methods) ==
  IF i > Len(methods)
    THEN [error |-> NoError, m_methods |-> m_methods]
    ELSE
      LET method        == methods[i]
          strMethodName == method.name
          checked       == IF check THEN MethodCheckQuickJs(jsObject, strMethodName) ELSE NoError
          jsMethod      == JavaScriptMethod(method, FALSE)
      IN  IF checked # NoError
            THEN [error |-> checked, m_methods |-> m_methods]
          ELSE IF Unbuildable(jsMethod)
            \* "catch (const std::exception &e) { m_methods.clear(); throw .. }"
            THEN [error |-> InProxiedMethod(strMethodName, BuildError(buildError)),
                  m_methods |-> EmptyTable]
            ELSE QjsAddMethods(i + 1, methods, jsObject, check, buildError,
                               emplace(m_methods, fromReflectedMethod(method), jsMethod))

\* the proxy object a successful constructor leaves behind
JavaScriptObject(m_methods) ==
  [kind |-> "JavaScriptObject", m_name |-> ObjectName, m_methods |-> m_methods]

NoComponent == [kind |-> "none"]

\* JavaScriptObject::JavaScriptObject, DUKTAPE
JavaScriptObjectDuktape(stk, jsObject, methods, check, buildError) ==
  LET r0 == [NoResult EXCEPT !.op = "JavaScriptObject::JavaScriptObject",
                             !.input = methods, !.check = check, !.jsObject = jsObject,
                             !.entryTop = Len(stk)]
  IN  IF ~jsObject.isObject
        THEN [result    |-> [r0 EXCEPT !.outcome = "thrown", !.error = CannotBeAccessed,
                                       !.exitTop = Len(stk)],
              component |-> NoComponent, stack |-> stk]
        ELSE
          LET added == DukAddMethods(1, methods, jsObject, check, buildError, EmptyTable,
                                     Append(stk, <<"object">>))
              r1    == [r0 EXCEPT !.table = DOMAIN added.m_methods,
                                  !.exitTop = Len(added.stack)]
          IN  IF added.error # NoError
                THEN [result    |-> [r1 EXCEPT !.outcome = "thrown", !.error = added.error],
                      component |-> NoComponent, stack |-> added.stack]
                ELSE [result    |-> [r1 EXCEPT !.outcome = "returned"],
                      component |-> JavaScriptObject(added.m_methods), stack |-> added.stack]

\* what a std::string holds after std::move took its value: valid but
\* unspecified, empty or still the text
MovedFrom(str) == {"", str}

\* JavaScriptObject::JavaScriptObject, QUICKJS.  strName: what the parameter
\* strName holds in the body, after m_name(std::move(strName))
JavaScriptObjectQuickJs(strName, jsObject, methods, check, buildError) ==
  LET r0 == [NoResult EXCEPT !.op = "JavaScriptObject::JavaScriptObject",
                             !.input = methods, !.check = check, !.jsObject = jsObject]
  IN  IF ~jsObject.isObject
        THEN [result    |-> [r0 EXCEPT !.outcome = "thrown",
                                       !.error = [type |-> "invalid_argument",
                                                  what |-> <<"Cannot register ", strName,
                                                             ". It does not exist or is not a valid object.">>]],
              component |-> NoComponent]
        ELSE
          LET added == QjsAddMethods(1, methods, jsObject, check, buildError, EmptyTable)
              r1    == [r0 EXCEPT !.table = DOMAIN added.m_methods]
          IN  IF added.error # NoError
                THEN [result    |-> [r1 EXCEPT !.outcome = "thrown", !.error = added.error],
                      component |-> NoComponent]
                ELSE [result    |-> [r1 EXCEPT !.outcome = "returned"],
                      component |-> JavaScriptObject(added.m_methods)]

CouldNotFindMethod(type, javaMethod) ==
  [type |-> type, what |-> <<"Could not find method ", ObjectName, ".", javaMethod.name>>]

\* the lookup falls back to the first method of the table
FindMethod_FirstEntry(m_methods, methodId) ==
  IF DOMAIN m_methods = {} THEN {} ELSE {CHOOSE id \in DOMAIN m_methods : TRUE}

\* "m_methods.find(methodId)": the matching entries (none or one)
FindMethod(m_methods, methodId) ==
  { id \in DOMAIN m_methods : id = methodId }

\* the lookup is made with the subscript operator, which adds an entry for an
\* identity the table does not hold
MethodsAfterFind_Subscript(m_methods, methodId) ==
  emplace(m_methods, methodId, JavaScriptMethod(NoMethod, FALSE))

\* "const auto methodIt = m_methods.find(methodId)" in a const member
\* function: the table the lookup leaves behind
MethodsAfterFind(m_methods, methodId) == m_methods

\* the proxy object after JavaScriptObject::call(javaMethod, ..): call is
\* const and touches m_methods through find only
JavaScriptObjectAfterCall(obj, javaMethod) ==
  [obj EXCEPT !.m_methods = MethodsAfterFind(@, fromReflectedMethod(javaMethod))]

\* "catch (const std::runtime_error &e)": the error with the prefix naming
\* the object and the method
WrapRuntimeError(r, javaMethod) ==
  IF r.outcome = "thrown" /\ r.error.type = "runtime_error"
    THEN [r EXCEPT !.error = [type |-> "runtime_error",
                              what |-> <<"Error while calling JS method ", ObjectName, ".",
                                         javaMethod.name, ": ">> \o r.error.what]]
    ELSE r

\* JValue JavaScriptObject::call(javaMethod, args, awaitJsPromise), DUKTAPE.
\* callee: what the property of the script object named like the method
\* holds at the time of the call (script code can have changed the object
\* since the registration)
JavaScriptObjectCallDuktape(obj, stk, javaMethod, args, awaitJsPromise, callee, behaviour) ==
  LET methodId == fromReflectedMethod(javaMethod)
      methodIt == FindMethod(obj.m_methods, methodId)
      r0       == [NoResult EXCEPT !.op = "JavaScriptObject::call", !.method = javaMethod,
                                   !.argc = Len(args), !.input = args,
                                   !.await = awaitJsPromise,
                                   !.table = DOMAIN obj.m_methods,
                                   !.entryTop = Len(stk), !.exitTop = Len(stk)]
  IN  IF methodIt = {}
        THEN [result |-> [r0 EXCEPT !.outcome = "thrown",
                                    !.error = CouldNotFindMethod("invalid_argument", javaMethod)],
              stack  |-> stk]
        ELSE
          LET jsMethod == obj.m_methods[CHOOSE id \in methodIt : TRUE]
              inv      == JavaScriptMethodInvokeDuktape(jsMethod, stk, args, awaitJsPromise,
                                                        callee, behaviour)
              r1       == [inv.result EXCEPT !.op = "JavaScriptObject::call",
                                             !.method = javaMethod,
                                             !.table = DOMAIN obj.m_methods]
          IN  [result |-> WrapRuntimeError(r1, javaMethod), stack |-> inv.stack]

\* JValue JavaScriptObject::call(jsObjectValue, javaMethod, args, awaitJsPromise), QUICKJS.
\* jsMethodValue: what JS_GetPropertyStr(ctx, jsObjectValue, jsMethod->getName())
\* yields at the time of the call
JavaScriptObjectCallQuickJs(obj, jsObjectIsObject, javaMethod, args, awaitJsPromise, jsMethodValue, behaviour) ==
  LET methodId == fromReflectedMethod(javaMethod)
      methodIt == FindMethod(obj.m_methods, methodId)
      r0       == [NoResult EXCEPT !.op = "JavaScriptObject::call", !.method = javaMethod,
                                   !.argc = Len(args), !.input = args,
                                   !.await = awaitJsPromise,
                                   !.table = DOMAIN obj.m_methods]
  IN  IF methodIt = {}
        THEN [r0 EXCEPT !.outcome = "thrown",
                        !.error = CouldNotFindMethod("runtime_error", javaMethod)]
      ELSE IF ~jsObjectIsObject
        THEN [r0 EXCEPT !.outcome = "thrown",
                        !.error = [type |-> "invalid_argument",
                                   what |-> <<"Cannot call ", ObjectName,
                                              ". It does not exist or is not a valid object.">>]]
      ELSE
        LET jsMethod == obj.m_methods[CHOOSE id \in methodIt : TRUE]
            inv      == JavaScriptMethodInvokeQuickJs(jsMethod, args, awaitJsPromise,
                                                      jsMethodValue, behaviour)
        IN  [inv EXCEPT !.op = "JavaScriptObject::call", !.method = javaMethod,
                        !.table = DOMAIN obj.m_methods]

(***************************************************************************)
(* Inputs                                                                  *)
(***************************************************************************)
\* the host argument arrays the proxy passes for a reflected method: one
\* value per declared parameter, the last one an array for a variadic method
HostArgs(method) ==
  LET fixed == IF method.isVarArgs THEN method.numParameters - 1 ELSE method.numParameters
      head  == SeqsOfLen({ JValue("java", h, <<>>) : h \in HostValues }, fixed)
  IN  IF method.isVarArgs
        THEN { Append(a, JArray(tail)) : a \in head, tail \in SeqsUpTo(HostValues, MaxVarArgs) }
        ELSE head

\* host argument arrays the contract of the proxy excludes: an empty (or null)
\* array for a variadic method, and an array with one value more than the
\* method declares (put before the trailing array of a variadic method)
NonConformingHostArgs(method) ==
  LET extra == JValue("java", "x", <<>>)
  IN  (IF method.isVarArgs THEN { <<>> } ELSE {})
        \cup { IF method.isVarArgs
                 THEN SubSeq(a, 1, Len(a) - 1) \o <<extra, a[Len(a)]>>
                 ELSE Append(a, extra) : a \in HostArgs(method) }

AnyHostArgs(method) == HostArgs(method) \cup NonConformingHostArgs(method)

\* the methods of the host interface a script object is proxied through:
\* compute() and compute(String, String), join(vararg String) (reflected
\* with Kotlin type information, and through Java only) and join(vararg Int)
InterfaceMethods ==
  { m \in Methods :
      \/ m.name = "compute" /\ ~m.isVarArgs /\ m.numParameters \in {0, 2}
      \/ m.name = "join" /\ m.isVarArgs /\ m.numParameters = 1 }

MethodLists == SeqsUpTo(InterfaceMethods, MaxMethods)

\* what the script side holds when a proxied method is called: the property
\* named like the method is a function with some behaviour, or it is absent
\* or a plain value (script code can have changed the object since the
\* registration, and check = false registers any object); for these the
\* behaviour only says whether the JsException made of the engine's error is
\* a std::runtime_error
CallTargets ==
  { [callee |-> "function", behaviour |-> b] : b \in Behaviours }
    \cup { [callee |-> c, behaviour |-> Behaviour("none", FALSE, FALSE, FALSE, "", re)] :
             c \in PropertyStates \ {"function"}, re \in BOOLEAN }

\* a script value that is not an object has no property
NoCallTarget == [callee |-> "absent", behaviour |-> NoBehaviour]

(***************************************************************************)
(* Actions                                                                 *)
(***************************************************************************)
Backends == {"DUKTAPE", "QUICKJS"}

\* the bridge is idle: no call is in progress on the interpreter thread
Idle == last = NoResult

Init ==
  /\ backend \in Backends
  /\ stack \in (IF backend = "DUKTAPE" THEN { <<>>, << <<"caller">> >> } ELSE { <<>> })
  /\ component = NoComponent
  /\ last = NoResult

\* registerJavaObject / registerJavaLambda build one JavaMethod per method
RegisterJavaMethod ==
  /\ Idle
  /\ component = NoComponent
  /\ \E method \in Methods, isLambda \in BOOLEAN, buildError \in BuildErrors :
       LET javaMethod == JavaMethod(method, isLambda)
           r0         == [NoResult EXCEPT !.op = "JavaMethod::JavaMethod", !.method = method]
       IN  IF Unbuildable(javaMethod)
             THEN /\ component' = NoComponent
                  /\ last' = [r0 EXCEPT !.outcome = "thrown", !.error = BuildError(buildError)]
             ELSE /\ component' = javaMethod
                  /\ last' = [r0 EXCEPT !.outcome = "returned"]
  /\ UNCHANGED <<backend, stack>>

\* script code calls the registered host method (DUKTAPE)
CallJavaMethodDuktape ==
  /\ Idle
  /\ backend = "DUKTAPE"
  /\ component.kind = "JavaMethod"
  /\ \E frame \in SeqsUpTo(ScriptValues, MaxArgs), hostReturn \in HostReturns :
       last' = JavaMethodInvokeDuktape(component, frame, hostReturn)
  /\ UNCHANGED <<backend, stack, component>>

\* script code calls the registered host method (QUICKJS)
CallJavaMethodQuickJs ==
  /\ Idle
  /\ backend = "QUICKJS"
  /\ component.kind = "JavaMethod"
  /\ \E argv \in SeqsUpTo(ScriptValues, MaxArgs), hostReturn \in HostReturns :
       last' = JavaMethodInvokeQuickJs(component, argv, hostReturn)
  /\ UNCHANGED <<backend, stack, component>>

\* registerJsLambda builds one JavaScriptMethod for the script function
RegisterJsLambda ==
  /\ Idle
  /\ component = NoComponent
  /\ \E method \in Methods, buildError \in BuildErrors :
       LET jsMethod == JavaScriptMethod(method, TRUE)
           r0       == [NoResult EXCEPT !.op = "JavaScriptMethod::JavaScriptMethod",
                                        !.method = method]
       IN  IF Unbuildable(jsMethod)
             THEN /\ component' = NoComponent
                  /\ last' = [r0 EXCEPT !.outcome = "thrown", !.error = BuildError(buildError)]
             ELSE /\ component' = [kind |-> "JavaScriptLambda", m_method |-> jsMethod,
                                   method |-> method]
                  /\ last' = [r0 EXCEPT !.outcome = "returned"]
  /\ UNCHANGED <<backend, stack>>

\* callJsLambda (DUKTAPE)
CallJsLambdaDuktape ==
  /\ Idle
  /\ backend = "DUKTAPE"
  /\ component.kind = "JavaScriptLambda"
  /\ \E args \in AnyHostArgs(component.method), awaitJsPromise \in BOOLEAN,
        behaviour \in Behaviours :
       LET inv == JavaScriptMethodInvokeDuktape(component.m_method, stack, args,
                                                awaitJsPromise, "function", behaviour)
       IN  /\ Len(inv.stack) <= MaxStack
           /\ last' = inv.result
           /\ stack' = inv.stack
  /\ UNCHANGED <<backend, component>>

\* callJsLambda (QUICKJS)
CallJsLambdaQuickJs ==
  /\ Idle
  /\ backend = "QUICKJS"
  /\ component.kind = "JavaScriptLambda"
  /\ \E args \in AnyHostArgs(component.method), awaitJsPromise \in BOOLEAN,
        behaviour \in Behaviours :
       last' = JavaScriptMethodInvokeQuickJs(component.m_method, args, awaitJsPromise,
                                             "function", behaviour)
  /\ UNCHANGED <<backend, stack, component>>

\* registerJsObject (DUKTAPE)
RegisterJsObjectDuktape ==
  /\ Idle
  /\ backend = "DUKTAPE"
  /\ component = NoComponent
  /\ \E jsObject \in ScriptObjects, methods \in MethodLists, check \in BOOLEAN,
        buildError \in BuildErrors :
       LET made == JavaScriptObjectDuktape(stack, jsObject, methods, check, buildError)
       IN  /\ Len(made.stack) <= MaxStack
           /\ component' = made.component
           /\ last' = made.result
           /\ stack' = made.stack
  /\ UNCHANGED backend

\* registerJsObject (QUICKJS)
RegisterJsObjectQuickJs ==
  /\ Idle
  /\ backend = "QUICKJS"
  /\ component = NoComponent
  /\ \E strName \in MovedFrom(ObjectName), jsObject \in ScriptObjects,
        methods \in MethodLists, check \in BOOLEAN, buildError \in BuildErrors :
       LET made == JavaScriptObjectQuickJs(strName, jsObject, methods, check, buildError)
       IN  /\ component' = made.component
           /\ last' = made.result
  /\ UNCHANGED <<backend, stack>>

\* callJsMethod (DUKTAPE)
CallJsMethodDuktape ==
  /\ Idle
  /\ backend = "DUKTAPE"
  /\ component.kind = "JavaScriptObject"
  /\ \E javaMethod \in InterfaceMethods :
       \E args \in AnyHostArgs(javaMethod), awaitJsPromise \in BOOLEAN, t \in CallTargets :
         LET res == JavaScriptObjectCallDuktape(component, stack, javaMethod, args,
                                                awaitJsPromise, t.callee, t.behaviour)
         IN  /\ Len(res.stack) <= MaxStack
             /\ last' = res.result
             /\ stack' = res.stack
             /\ component' = JavaScriptObjectAfterCall(component, javaMethod)
  /\ UNCHANGED backend

\* callJsMethod (QUICKJS)
CallJsMethodQuickJs ==
  /\ Idle
  /\ backend = "QUICKJS"
  /\ component.kind = "JavaScriptObject"
  /\ \E javaMethod \in InterfaceMethods, jsObjectIsObject \in BOOLEAN :
       \E args \in AnyHostArgs(javaMethod), awaitJsPromise \in BOOLEAN,
          t \in (IF jsObjectIsObject THEN CallTargets ELSE {NoCallTarget}) :
         /\ last' = JavaScriptObjectCallQuickJs(component, jsObjectIsObject, javaMethod, args,
                                                awaitJsPromise, t.callee, t.behaviour)
         /\ component' = JavaScriptObjectAfterCall(component, javaMethod)
  /\ UNCHANGED <<backend, stack>>

\* the marshaller provider asks a parameter for the entry point of its
\* callable wrapper (Parameter.invokeMethod, called from JNI)
GetInvokeMethod ==
  /\ Idle
  /\ component = NoComponent
  /\ \E c \in ReflectedClasses :
       last' = [NoResult EXCEPT !.op = "Parameter.invokeMethod", !.input = <<c>>,
                                !.outcome = "returned", !.resolved = invokeMethod(c)]
  /\ UNCHANGED <<backend, stack, component>>

\* the marshaller provider asks a parameter for the descriptor of its
\* elements (Parameter.getGenericParameter / getComponentType, from JNI)
GetElementDescriptor ==
  /\ Idle
  /\ component = NoComponent
  /\ \E p \in SampleParameters :
       \/ last' = [NoResult EXCEPT !.op = "Parameter.getGenericParameter", !.input = <<p>>,
                                   !.outcome = "returned",
                                   !.parameter = getGenericParameter(p)]
       \/ last' = [NoResult EXCEPT !.op = "Parameter.getComponentType", !.input = <<p>>,
                                   !.outcome = "returned",
                                   !.parameter = getComponentType(p)]
  /\ UNCHANGED <<backend, stack, component>>

\* the synchronous operation hands its result (or its exception) to the
\* caller, and the interpreter thread is free for the next operation; an
\* operation that read outside an array has no defined continuation
ReturnToCaller ==
  /\ ~Idle
  /\ ~last.outOfBounds
  /\ last' = NoResult
  /\ UNCHANGED <<backend, stack, component>>

Next ==
  \/ RegisterJavaMethod
  \/ CallJavaMethodDuktape
  \/ CallJavaMethodQuickJs
  \/ RegisterJsLambda
  \/ CallJsLambdaDuktape
  \/ CallJsLambdaQuickJs
  \/ RegisterJsObjectDuktape
  \/ RegisterJsObjectQuickJs
  \/ CallJsMethodDuktape
  \/ CallJsMethodQuickJs
  \/ GetInvokeMethod
  \/ GetElementDescriptor
  \/ ReturnToCaller

Spec == Init /\ [][Next]_vars

(***************************************************************************)
(* Properties of JavaMethod::invoke (HostMethodInvoker.invoke)             *)
(***************************************************************************)
\* the last operation was an invoke of the registered host method
HostInvoked == last.op = "JavaMethod::invoke" /\ component.kind = "JavaMethod"

\* every script argument that was passed can be read by its marshaller
AllReadable == \A i \in 1..Len(last.input) : CanRead(last.input[i])

\* C1: a non-variadic host method called with more script arguments than its
\* declared parameter count fails with an invalid-argument error before any
\* argument is marshalled and before the foreign call is made (both backends).
C1_TooManyArgumentsRejected ==
  (HostInvoked /\ ~component.m_isVarArgs /\ last.argc > MinArgs(component))
    => /\ last.outcome = "thrown"
       /\ last.error.type = "invalid_argument"
       /\ last.error = TooManyParameters(component, last.argc)
       /\ last.marshalled = 0
       /\ ~last.called

\* a 2-parameter non-variadic method was called with 3 arguments and rejected
C1_Witness ==
  /\ HostInvoked
  /\ ~component.m_isVarArgs
  /\ Len(component.m_argumentTypes) = 2
  /\ last.argc = 3
  /\ last.outcome = "thrown"
  /\ ~last.called

\* C2: called with argc < minArgs readable script arguments, the invoker does
\* not fail: the foreign call is made with a vector of declared-parameter
\* length whose positions i < argc hold the marshalled argument i and whose
\* positions argc <= i < minArgs are null.
C2_MissingArgumentsAreNull ==
  (HostInvoked /\ last.argc < MinArgs(component) /\ AllReadable)
    => /\ last.called
       /\ Len(last.callArgs) = Len(component.m_argumentTypes)
       /\ \A i \in 1..last.argc : last.callArgs[i] = ToJava(last.input[i])
       /\ \A i \in (last.argc + 1)..MinArgs(component) : last.callArgs[i] = JNull

\* C3: a variadic host method called with minArgs + n readable script
\* arguments (n >= 0) is called with, as its last host argument, one array of
\* exactly n elements holding the arguments minArgs .. minArgs+n-1 in order;
\* for n = 0 the array is empty, never null.
C3_VarArgsCollectedInOneArray ==
  (HostInvoked /\ component.m_isVarArgs /\ last.argc >= MinArgs(component))
    => LET minArgs == MinArgs(component)
           n       == last.argc - minArgs
           size    == Len(component.m_argumentTypes)
       IN  /\ AllReadable => last.called
           /\ last.called =>
                /\ Len(last.callArgs) = size
                /\ last.callArgs[size].tag = "array"
                /\ Len(last.callArgs[size].elements) = n
                /\ \A j \in 1..n :
                     last.callArgs[size].elements[j] = ToJava(last.input[minArgs + j])

\* join(String, String...) was called with one fixed and two distinct variadic
\* arguments, and the foreign call was made
C3_Witness ==
  /\ HostInvoked
  /\ component.m_isVarArgs
  /\ MinArgs(component) = 1
  /\ last.argc = 3
  /\ last.input[2] # last.input[3]
  /\ last.called
  /\ Len(last.callArgs[2].elements) = 2

\* C7: every handle the invoker acquired for argument extraction (the
\* temporary script array of the variadic arguments included) has been
\* released exactly once when invoke returns or throws.
C7_ArgumentHandlesReleased ==
  HostInvoked
    => /\ Len(last.released) = last.acquired
       /\ \A k \in 1..last.acquired : last.released[k] = 1

(***************************************************************************)
(* Properties of JavaScriptMethod::invoke (ScriptMethodInvoker.invoke)     *)
(* and of JavaScriptObject (ProxyObject)                                   *)
(***************************************************************************)
\* the last operation was a call of a script lambda or of a proxied method
ScriptCallOp ==
  \/ last.op = "JavaScriptMethod::invoke" /\ component.kind = "JavaScriptLambda"
  \/ last.op = "JavaScriptObject::call" /\ component.kind = "JavaScriptObject"

\* the reflected method whose invoker ran
InvokedMethod ==
  IF component.kind = "JavaScriptLambda" THEN component.method ELSE last.method

\* the script callable was invoked and threw
ScriptThrew == ScriptCallOp /\ last.called /\ last.behaviour.kind = "throw"

\* the script callable was invoked and returned a value
ScriptReturned == ScriptCallOp /\ last.called /\ last.behaviour.kind = "return"

\* C4: when the script callable throws, invoke raises a host exception that
\* carries the script message, returns no value and runs no return
\* marshaller; JavaScriptObject::call may add a prefix but keeps the message.
C4_ScriptErrorTranslated ==
  ScriptThrew
    => /\ last.outcome = "thrown"
       /\ last.error.type \in {"JsException", "runtime_error"}
       /\ Contains(last.error.what, last.behaviour.message)
       /\ \A other \in ScriptMessages \ {last.behaviour.message} :
            ~Contains(last.error.what, other)
       /\ last.value = JNull
       /\ last.returnCodec = "none"

\* a proxied method threw "bad" and call raised an error with the prefix
\* naming object and method, still holding "bad"
C4_Witness ==
  /\ ScriptThrew
  /\ last.op = "JavaScriptObject::call"
  /\ last.behaviour.message = "bad"
  /\ last.outcome = "thrown"
  /\ Len(last.error.what) > 1
  /\ Contains(last.error.what, "bad")

\* C5: a successful return value goes through the AsyncResult bridging
\* marshaller exactly when awaitAsync is set, the value is an object exposing
\* "then" and the declared return kind is not AsyncResult; otherwise through
\* the declared return marshaller.
C5_ThenableBridgedWhenAwaited ==
  ScriptReturned
    => LET bridged == /\ last.await
                      /\ last.behaviour.isObject
                      /\ last.behaviour.hasThen
                      /\ InvokedMethod.returnType # "Deferred"
       IN  /\ bridged => last.returnCodec = "deferred"
           /\ ~bridged => last.returnCodec = "declared"
           /\ last.outcome = "returned" =>
                last.value.of = (IF InvokedMethod.returnType = "Deferred" \/ bridged
                                   THEN "Deferred" ELSE InvokedMethod.returnType)

\* a method declared to return String returned a thenable to an awaiting
\* caller and the bridging marshaller read it
C5_Witness ==
  /\ ScriptReturned
  /\ last.await
  /\ last.behaviour.isObject /\ last.behaviour.hasThen
  /\ InvokedMethod.returnType = "String"
  /\ last.outcome = "returned"
  /\ last.returnCodec = "deferred"

\* a host argument (or an element of the variadic array) cannot be written
Unwritable(arg) ==
  \/ arg.tag = "java" /\ ~CanWrite(arg.of)
  \/ arg.tag = "array" /\ \E j \in 1..Len(arg.elements) : ~CanWrite(arg.elements[j])

\* the 1-based index of the first host argument that cannot be written, or 0
FirstUnwritable ==
  IF \E i \in 1..Len(last.input) : Unwritable(last.input[i])
    THEN CHOOSE i \in 1..Len(last.input) :
           /\ Unwritable(last.input[i])
           /\ \A k \in 1..(i - 1) : ~Unwritable(last.input[k])
    ELSE 0

\* the target of the script call was a callable: the script function of a
\* lambda, or the property of the proxied object when it held a function
TargetCallable == last.callee = "function"

\* the invoker of a script call ran (the method was found, the object valid)
\* and left through one of its exit paths
InvokerRan ==
  /\ ScriptCallOp
  /\ ~last.outOfBounds
  /\ last.op = "JavaScriptObject::call" => fromReflectedMethod(last.method) \in last.table
  /\ last.error.what # <<"Cannot call ", ObjectName, ". It does not exist or is not a valid object.">>

\* C8: on the handle-based backend every script value produced for the call
\* arguments is released exactly once on each exit path; when marshalling
\* argument i fails the values of arguments 0..i-1 are released and the
\* script callable is never invoked.
C8_ArgumentValuesReleasedOnce ==
  (InvokerRan /\ backend = "QUICKJS")
    => /\ Len(last.released) = last.acquired
       /\ \A k \in 1..last.acquired : last.released[k] = 1
       /\ FirstUnwritable > 0 =>
            /\ ~last.called
            /\ last.outcome = "thrown"
            /\ last.acquired = FirstUnwritable - 1
       /\ FirstUnwritable = 0 =>
            /\ last.called = TargetCallable
            /\ last.acquired = Len(last.callArgs)

\* marshalling the second argument failed after the first one had been
\* produced; that one value was released once
C8_Witness ==
  /\ InvokerRan /\ backend = "QUICKJS"
  /\ FirstUnwritable = 2
  /\ last.acquired = 1
  /\ last.released = <<1>>
  /\ ~last.called

\* C9: on the stack-based backend invoke leaves the value stack at its entry
\* depth on every exit path, for lambda targets and object-method targets.
C9_StackBalanced ==
  (InvokerRan /\ backend = "DUKTAPE")
    => /\ last.exitTop = last.entryTop
       /\ Len(stack) = last.entryTop

\* marshalling the second argument of a proxied method failed with one
\* argument pushed on a non-empty stack, and the stack is back at its depth
C9_Witness ==
  /\ InvokerRan /\ backend = "DUKTAPE"
  /\ last.op = "JavaScriptObject::call"
  /\ FirstUnwritable = 2
  /\ last.outcome = "thrown"
  /\ last.entryTop = 1
  /\ Len(stack) = 1

\* the last operation was the construction of a proxy object
Registered == last.op = "JavaScriptObject::JavaScriptObject"

\* the listed method at index i is absent from the script object or not callable
NotAFunction(i) == last.jsObject.props[last.input[i].name] # "function"

\* the registration was made with check = true for a script object on which
\* a listed method name is absent or not callable
CheckedMethodMissing ==
  /\ Registered /\ last.check /\ last.jsObject.isObject
  /\ \E i \in 1..Len(last.input) : NotAFunction(i)

\* the index of the first listed method absent or not callable
FirstNotAFunction ==
  CHOOSE i \in 1..Len(last.input) :
    NotAFunction(i) /\ \A k \in 1..(i - 1) : ~NotAFunction(k)

\* the listed methods before index n whose invoker cannot be built
UnbuildableBefore(n) ==
  { k \in 1..(n - 1) : Unbuildable(JavaScriptMethod(last.input[k], FALSE)) }

\* the diagnostic of the sanity check naming the listed method at index i
NamesMissingMethod(i) ==
  /\ last.error.type = "invalid_argument"
  /\ ~Contains(last.error.what, "In proxied method \"")
  /\ \/ Contains(last.error.what, " has no method called ")
     \/ Contains(last.error.what, " not callable")
     \/ Contains(last.error.what, " is not function")
  /\ Contains(last.error.what, last.input[i].name)

C10_UnknownMethodRejected ==
  (last.op = "JavaScriptObject::call"
     /\ fromReflectedMethod(last.method) \notin DOMAIN component.m_methods)
    => /\ last.outcome = "thrown"
       /\ last.error.type \in {"invalid_argument", "runtime_error"}
       /\ Contains(last.error.what, "Could not find method ")
       /\ ~last.called
       /\ last.callArgs = <<>>

\* an awaited call with arguments of a method the non-empty table does not hold
C10_Witness ==
  /\ last.op = "JavaScriptObject::call"
  /\ component.m_methods # EmptyTable
  /\ fromReflectedMethod(last.method) \notin DOMAIN component.m_methods
  /\ last.await
  /\ last.argc > 0
  /\ last.outcome = "thrown"

(***************************************************************************)
(* Properties of the method table and of invoker construction              *)
(***************************************************************************)
\* C11: once a proxy object has been constructed, no call, successful or
\* failing, adds, removes or replaces an entry of its method table.
C11_TableUnchangedByCalls ==
  [][component.kind = "JavaScriptObject"
       => /\ component'.kind = "JavaScriptObject"
          /\ component'.m_methods = component.m_methods]_vars

\* a call with an identity the two-entry table does not hold has failed, and
\* the table still holds the two entries it held on entry
C11_Witness ==
  /\ last.op = "JavaScriptObject::call"
  /\ component.kind = "JavaScriptObject"
  /\ last.outcome = "thrown"
  /\ fromReflectedMethod(last.method) \notin last.table
  /\ Cardinality(last.table) = 2
  /\ DOMAIN component.m_methods = last.table

\* the script method invokers the registered component holds
ScriptInvokers ==
  IF component.kind = "JavaScriptLambda" THEN {component.m_method}
  ELSE IF component.kind = "JavaScriptObject"
    THEN { component.m_methods[id] : id \in DOMAIN component.m_methods }
  ELSE {}

\* C12: every argument marshaller of a script method invoker is built in
\* boxed form, the marshaller of the variadic tail parameter included.
C12_ArgumentMarshallersBoxed ==
  \A jsm \in ScriptInvokers :
    \A i \in 1..Len(jsm.m_argumentTypes) : jsm.m_argumentTypes[i].boxed

\* C13: for a variadic script method, invoke given k fixed host arguments and
\* a trailing host array of n elements (n >= 0) calls the script callable with
\* exactly k + n arguments: the k marshalled fixed arguments in order, then
\* the n marshalled array elements in order (both backends).
C13_VarArgsExpanded ==
  (InvokerRan /\ InvokedMethod.isVarArgs /\ Len(last.input) >= 1)
    => LET k        == Len(last.input) - 1
           tail     == last.input[k + 1].elements
           n        == Len(tail)
           expected == [i \in 1..(k + n) |->
                          IF i <= k THEN FromJava(last.input[i].of)
                                    ELSE FromJava(tail[i - k])]
       IN  /\ FirstUnwritable = 0 => /\ last.called = TargetCallable
                                      /\ last.callArgs = expected
           /\ last.called => last.callArgs = expected

\* join(String, String...) was called with one fixed argument and an array of
\* two distinct elements, and the script callable got three arguments
C13_Witness ==
  /\ InvokerRan /\ InvokedMethod.isVarArgs
  /\ Len(last.input) = 2
  /\ Len(last.input[2].elements) = 2
  /\ last.input[2].elements[1] # last.input[2].elements[2]
  /\ last.called
  /\ Len(last.callArgs) = 3

\* C15: invoke of a script method never reads an argument marshaller or a
\* host argument at an index outside its array, whatever the number of host
\* arguments: an empty or null array for a variadic method and an array longer
\* than the declared parameter list included.
C15_NoOutOfBoundsRead ==
  ScriptCallOp => ~last.outOfBounds

\* what the other backend's invoke does with the same invoker and the same
\* script arguments
OtherBackendInvoke ==
  IF backend = "DUKTAPE"
    THEN JavaMethodInvokeQuickJs(component, last.input, "x")
    ELSE JavaMethodInvokeDuktape(component, last.input, "x")

\* C14: for the same invoker and the same script arguments, invoke of a host
\* method on the two backends either fails on both or passes the same host
\* argument vector on both; for a variadic method called with fewer than
\* minArgs arguments the number of variadic elements read is 0, never a
\* negative or wrapped-around count.
C14_BackendsAgree ==
  HostInvoked
    => LET other == OtherBackendInvoke
           size  == Len(component.m_argumentTypes)
       IN  /\ last.called = other.called
           /\ last.called => last.callArgs = other.callArgs
           /\ (component.m_isVarArgs /\ last.argc < MinArgs(component) /\ AllReadable)
                => /\ ~last.varArgCount.wrapped
                   /\ last.called
                   /\ last.callArgs[size] = JArray(<<>>)

\* the invokers built by registerJavaObject / registerJavaLambda and by
\* registerJsLambda, each with the reflected method it was built from
BuiltInvokers ==
  IF component.kind = "JavaScriptLambda"
    THEN { [method |-> component.method, invoker |-> component.m_method] }
  ELSE IF component.kind = "JavaMethod" /\ last.op = "JavaMethod::JavaMethod"
    THEN { [method |-> last.method, invoker |-> component] }
  ELSE {}

\* C16: the construction of a host method invoker builds exactly one argument
\* marshaller per declared parameter plus one return marshaller; for a
\* variadic method the last one is built from the element descriptor of the
\* final parameter, not from the array parameter itself; each of them is
\* boxed exactly when the call target is a lambda.
C16_HostInvokerMarshallers ==
  (last.op = "JavaMethod::JavaMethod" /\ last.outcome = "returned")
    => LET parameters == getParameters(last.method)
           n          == last.method.numParameters
           types      == component.m_argumentTypes
       IN  /\ component.kind = "JavaMethod"
           /\ Len(types) = n
           /\ \A i \in 1..n :
                /\ types[i].boxed = component.m_isLambda
                /\ types[i].codec = "declared"
                /\ IF last.method.isVarArgs /\ i = n
                     THEN /\ types[i].parameter # parameters[i]
                          /\ javaComponentType(types[i].parameter.type) = NoClass
                          /\ parameters[i].arguments # <<>>
                                => types[i].parameter.type = parameters[i].arguments[1]
                     ELSE types[i].parameter = parameters[i]
           /\ component.m_returnValueType.boxed = component.m_isLambda
           /\ component.m_returnValueType.parameter = getReturnParameter(last.method)

\* the invoker of a lambda target join(String, vararg String) has been built:
\* two boxed argument marshallers, the last one for String
C16_Witness ==
  /\ last.op = "JavaMethod::JavaMethod" /\ last.outcome = "returned"
  /\ component.kind = "JavaMethod"
  /\ component.m_isLambda
  /\ last.method.isVarArgs /\ last.method.numParameters = 2
  /\ Len(component.m_argumentTypes) = 2
  /\ component.m_argumentTypes[2].parameter.type = "String"
  /\ component.m_argumentTypes[2].boxed

\* C18: on the stack-based backend the construction of a proxy object leaves
\* the value stack at its entry depth on every exit path: success, the value
\* not being an object, a missing or non-callable method under check=true,
\* and any failure while building the invoker of a method.
C18_ConstructorStackBalanced ==
  (Registered /\ backend = "DUKTAPE")
    => /\ last.exitTop = last.entryTop
       /\ Len(stack) = last.entryTop

\* the element descriptor of an array parameter: its generic element type if
\* known, else the raw component type of the array class, else OpaqueObject
ElementDescriptor(p) ==
  IF p.kotlinType /\ p.arguments # <<>> THEN Parameter(p.arguments[1], TRUE, <<>>)
  ELSE IF javaComponentType(p.type) # NoClass
    THEN Parameter(javaComponentType(p.type), FALSE, <<>>)
  ELSE Parameter("Any", FALSE, <<>>)

\* C20: the marshaller of the final parameter of a variadic method is built
\* from the element descriptor resolved in the order generic element type,
\* raw component type, OpaqueObject, in host and in script method invokers.
C20_VarArgElementDescriptor ==
  \A b \in BuiltInvokers :
    b.method.isVarArgs
      => LET n == b.method.numParameters
         IN  /\ Len(b.invoker.m_argumentTypes) = n
             /\ b.invoker.m_argumentTypes[n].parameter
                  = ElementDescriptor(getParameters(b.method)[n])

\* C17: every marshaller used by an invoke was built when its invoker was
\* constructed: invoke never builds or requests a marshaller at call time,
\* the path that bridges a thenable return value included.
C17_NoMarshallerRequestedAtCallTime ==
  (InvokerRan \/ HostInvoked)
    => /\ last.requested = 0
       /\ last.returnCodec \in {"none", "declared"}

(***************************************************************************)
(* Properties of Parameter (TypeDescriptor)                                *)
(***************************************************************************)
\* C19: resolving the entry point of a callable wrapper never propagates a
\* failure of the generic-reflection member lookup, and whenever that lookup
\* yields no entry point (it throws, or it finds no member named invoke) the
\* resolution falls back to scanning the class's methods for one named
\* invoke and is absent only if the scan finds none.
C19_InvokeMethodFallsBack ==
  last.op = "Parameter.invokeMethod"
    => LET c      == last.input[1]
           yields == c.kotlinType /\ c.memberFunctions = "found"
       IN  /\ last.outcome = "returned"
           /\ yields => last.resolved = "Method(kotlinFunction, true)"
           /\ ~yields =>
                /\ c.javaInvoke
                     => last.resolved \in {"Method(javaMethod)",
                                           "Method(javaMethod, kotlinType.arguments, true)"}
                /\ ~c.javaInvoke => last.resolved = "null"

\* C21: the resolution of an element descriptor (getGenericParameter for the
\* payload of an AsyncResult, getComponentType for the component of an array)
\* never yields an absent result: it is the first generic type argument when
\* there is one, and otherwise the OpaqueObject descriptor (or, for an array,
\* its raw component type), with or without generic type information.
C21_ElementDescriptorNeverAbsent ==
  last.op \in {"Parameter.getGenericParameter", "Parameter.getComponentType"}
    => LET p == last.input[1]
       IN  /\ last.parameter # NoParameter
           /\ p.arguments # <<>> => last.parameter.type = p.arguments[1]
           /\ p.arguments = <<>>
                => last.parameter.type \in
                     {"Any"} \cup (IF last.op = "Parameter.getComponentType"
                                     THEN {javaComponentType(p.type)} ELSE {})

\* the index of the first listed method with the given identity
FirstListed(methods, id) ==
  CHOOSE i \in 1..Len(methods) :
    /\ fromReflectedMethod(methods[i]) = id
    /\ \A k \in 1..(i - 1) : fromReflectedMethod(methods[k]) # id

\* C22: the method table built by a registration holds exactly one invoker
\* per distinct method identity of the method list; of two listed methods
\* with the same identity the invoker of the first one is kept, so the table
\* has as many entries as there are distinct identities, at most the length
\* of the list.
C22_OneInvokerPerIdentity ==
  (Registered /\ last.outcome = "returned")
    => LET methods    == last.input
           identities == { fromReflectedMethod(methods[i]) : i \in 1..Len(methods) }
       IN  /\ component.kind = "JavaScriptObject"
           /\ DOMAIN component.m_methods = identities
           /\ last.table = identities
           /\ Cardinality(identities) <= Len(methods)
           /\ \A id \in identities :
                component.m_methods[id]
                  = JavaScriptMethod(methods[FirstListed(methods, id)], FALSE)

\* join(vararg String) was listed twice, first reflected with Kotlin type
\* information and then through Java only: the table holds one invoker, the
\* one built from the first
C22_Witness ==
  /\ Registered /\ last.outcome = "returned"
  /\ Len(last.input) = 2
  /\ last.input[1].reflection = "kotlin" /\ last.input[2].reflection = "java"
  /\ fromReflectedMethod(last.input[1]) = fromReflectedMethod(last.input[2])
  /\ Cardinality(DOMAIN component.m_methods) = 1
  /\ JavaScriptMethod(last.input[1], FALSE) # JavaScriptMethod(last.input[2], FALSE)
  /\ component.m_methods[fromReflectedMethod(last.input[1])]
       = JavaScriptMethod(last.input[1], FALSE)

====
